---------------------------- MODULE Spec2Model ----------------------------
(***************************************************************************)
(* A model of the retrieval core of LucAstra: the BM25 inverted index      *)
(* (search/src/index.rs, search/src/tokenizer.rs) and the flat vector      *)
(* index (search/src/vector.rs), and the search service over the BM25      *)
(* index (search/src/lib.rs); and the two-tier embedding cache             *)
(* (llm/src/cache.rs), the conversation context (llm/src/conversation.rs)  *)
(* and the token bucket (llm/src/rate_limit.rs).                           *)
(*                                                                         *)
(* f32 values are modelled by their range, not by their rounding: a float  *)
(* is a finite number, an infinity or NaN; an operation whose exact result *)
(* leaves [-FloatMax, FloatMax] yields an infinity, and the IEEE rules for *)
(* infinities and NaN apply.  FloatMax stands for f32::MAX, scaled down.   *)
(***************************************************************************)
EXTENDS Integers, Sequences, FiniteSets, TLC

VARIABLES
    index,    \* the BM25Index: documents, term_docs, term_freqs, avg_doc_len
    out,      \* the last BM25Index call and what it returned
    vindex,   \* the VectorIndex: documents, dimensions, next_id
    vout,     \* the last VectorIndex call and what it returned
    service,  \* the SearchService: index, documents
    sout,     \* the last SearchService call and what it returned
    latest,   \* history: the content last passed to index_document, by path
    stop_in,  \* the terms last passed to Tokenizer::remove_stopwords
    stop_out, \* what that call returned
    caches,   \* the EmbeddingCache instances on one directory: memory_cache
    disk,     \* the files of the cache directory, by the hash in their name
    now,      \* chrono::Utc::now().timestamp()
    cout,     \* the last EmbeddingCache call and what it returned
    inflight, \* by instance, the put it has begun and not finished
    last_put, \* history: by hash, the embedding of the last put and whether
              \* clear_old has removed its file since
    conv,     \* the Conversation: messages, max_messages, max_tokens
    cvout,    \* the last Conversation call
    given,    \* history: the system prompt given at construction, if any
    added,    \* history: the messages added since construction or clear
    limiter,  \* the RateLimiter: tokens, max_tokens, refill_rate,
              \* last_refill, and who holds each of its two mutexes
    callers,  \* by task, the call of the limiter it is in and where
    clock,    \* Instant::now()
    rlout,    \* the last RateLimiter call that returned
    ledger    \* history: the grants since creation and its instant

vars ==
    <<index, out, vindex, vout, service, sout, latest, stop_in, stop_out,
      caches, disk, now, cout, inflight, last_put,
      conv, cvout, given, added, limiter, callers, clock, rlout, ledger>>

svc_vars == <<service, sout, latest>>
tok_vars == <<stop_in, stop_out>>
cache_vars == <<caches, disk, now, cout, inflight, last_put>>
conv_vars == <<conv, cvout, given, added>>
rate_vars == <<limiter, callers, clock, rlout, ledger>>

---------------------------------------------------------------------------
(* Bounds *)

FloatMax == 100      \* stands for f32::MAX
Scale == 1000        \* BM25 scores are kept to 1/Scale
MaxTopK == 2         \* largest top_k passed to BM25Index::search
MaxVecDocs == 3      \* successful inserts explored per generation
MaxTerms == 2        \* longest term list passed to remove_stopwords
max_memory_entries == 1   \* capacity of the memory tier; stands for 1000
MaxClock == 1        \* days the clock advances
IntBits == 24        \* width of u64, i64 and usize, scaled down from 64
MaxMessages == 2     \* largest max_messages given, usize::MAX apart
MaxBudget == 2       \* largest max_tokens given
MaxAdds == 3         \* add_message calls between two clears
TicksPerMinute == 2  \* instants of the clock in a minute
MaxRate == 2         \* largest requests_per_minute given
MaxTicks == 3        \* instants the clock of the limiter advances

---------------------------------------------------------------------------
(* Sequence helpers *)

Range(s) == { s[i] : i \in 1..Len(s) }

Min(a, b) == IF a <= b THEN a ELSE b

Take(s, n) == SubSeq(s, 1, Min(n, Len(s)))

---------------------------------------------------------------------------
(* f32 *)

Num(v) == [k |-> "num", v |-> v]
PosInf == [k |-> "inf", v |-> 1]
NegInf == [k |-> "inf", v |-> -1]
NaN == [k |-> "nan", v |-> 0]

Sign(v) == IF v > 0 THEN 1 ELSE IF v < 0 THEN -1 ELSE 0

\* the float of an exact result: overflow gives an infinity
Round(v) ==
    IF v > FloatMax THEN PosInf
    ELSE IF v < -FloatMax THEN NegInf
    ELSE Num(v)

FMul(x, y) ==
    IF x.k = "nan" \/ y.k = "nan" THEN NaN
    ELSE IF x.k = "num" /\ y.k = "num" THEN Round(x.v * y.v)
    ELSE IF Sign(x.v) * Sign(y.v) = 0 THEN NaN
    ELSE [k |-> "inf", v |-> Sign(x.v) * Sign(y.v)]

FAdd(x, y) ==
    IF x.k = "nan" \/ y.k = "nan" THEN NaN
    ELSE IF x.k = "num" /\ y.k = "num" THEN Round(x.v + y.v)
    ELSE IF x.k = "inf" /\ y.k = "inf" THEN (IF x.v = y.v THEN x ELSE NaN)
    ELSE IF x.k = "inf" THEN x
    ELSE y

\* Iterator::sum over the first n elements of a sequence of floats
RECURSIVE FSum(_, _)
FSum(s, n) == IF n = 0 THEN Num(0) ELSE FAdd(FSum(s, n - 1), s[n])

---------------------------------------------------------------------------
(* VectorIndex (search/src/vector.rs) *)

None == <<>>
Some(x) == <<x>>

\* A similarity score: num n/sqrt(d2), or NaN, or an infinity of sign n.
Score(n, d2) == [k |-> "num", n |-> n, d2 |-> d2]
ScoreNaN == [k |-> "nan", n |-> 0, d2 |-> 1]
ScoreInf(sgn) == [k |-> "inf", n |-> sgn, d2 |-> 1]

\* dot_product / (norm_a * norm_b), the norms given by their squares
DivByNorms(dot, sq_a, sq_b) ==
    IF dot.k = "nan" \/ sq_a.k = "nan" \/ sq_b.k = "nan" THEN ScoreNaN
    ELSE IF sq_a.k = "inf" \/ sq_b.k = "inf"
         THEN (IF dot.k = "inf" THEN ScoreNaN ELSE Score(0, 1))
    ELSE IF dot.k = "inf" THEN ScoreInf(dot.v)
    ELSE Score(dot.v, sq_a.v * sq_b.v)

cosine_similarity(a, b) ==
    LET dot_product == FSum([i \in 1..Len(a) |-> FMul(a[i], b[i])], Len(a))
        sq_a == FSum([i \in 1..Len(a) |-> FMul(a[i], a[i])], Len(a))
        sq_b == FSum([i \in 1..Len(b) |-> FMul(b[i], b[i])], Len(b))
    IN  IF sq_a = Num(0) \/ sq_b = Num(0)
        THEN Score(0, 1)
        ELSE DivByNorms(dot_product, sq_a, sq_b)

\* the order of two scores: a monotone image of n/sqrt(d2) decides it
Key(s, other) == Sign(s.n) * s.n * s.n * other.d2

\* f32::partial_cmp(x, y): "Less", "Equal", "Greater" or "None"
partial_cmp(x, y) ==
    IF x.k = "nan" \/ y.k = "nan" THEN "None"
    ELSE IF x.k = "inf" \/ y.k = "inf" THEN
        LET xv == IF x.k = "inf" THEN 2 * x.n ELSE Sign(x.n)
            yv == IF y.k = "inf" THEN 2 * y.n ELSE Sign(y.n)
        IN  IF x.k = "inf" /\ y.k = "inf" /\ x.n = y.n THEN "Equal"
            ELSE IF xv < yv THEN "Less" ELSE "Greater"
    ELSE IF Key(x, y) < Key(y, x) THEN "Less"
    ELSE IF Key(x, y) > Key(y, x) THEN "Greater"
    ELSE "Equal"

\* the comparator of the sort: |a, b| b.0.partial_cmp(&a.0).unwrap_or(Equal)
DescCmp(a, b) ==
    LET c == partial_cmp(b, a) IN IF c = "None" THEN "Equal" ELSE c

\* slice::sort_by sorts a slice of fewer than 20 elements by insertion: each
\* element in turn moves left past the elements the comparator puts after it.
\* c[i][j] is the comparator's answer for the elements at positions i and j.
\* order (a sequence of positions) with position x put behind the last
\* position the comparator does not put after it
Insert(c, order, x) ==
    LET after == { i \in 1..Len(order) : c[order[i]][x] # "Greater" }
        at == IF after = {} THEN 0
              ELSE CHOOSE i \in after : \A j \in after : j <= i
    IN  SubSeq(order, 1, at) \o <<x>> \o SubSeq(order, at + 1, Len(order))

RECURSIVE StableOrder(_, _)
StableOrder(c, n) ==
    IF n = 0 THEN <<>> ELSE Insert(c, StableOrder(c, n - 1), n)

\* the order sort_by leaves n elements in, as a sequence of positions
SortedOrder(c, n) == StableOrder(c, n)

NewVectorIndex == [documents |-> <<>>, dimensions |-> None, next_id |-> 0]

Ok(id, hits) == [kind |-> "Ok", id |-> id, expected |-> 0, got |-> 0, hits |-> hits]
EmptyEmbeddings ==
    [kind |-> "EmptyEmbeddings", id |-> 0, expected |-> 0, got |-> 0, hits |-> <<>>]
DimensionMismatch(expected, got) ==
    [kind |-> "DimensionMismatch", id |-> 0, expected |-> expected, got |-> got,
     hits |-> <<>>]

\* add_document taking its id before it validates the embedding
VectorIndex_add_document_id_first(idx, path, embedding, snippet) ==
    LET taken == [idx EXCEPT !.next_id = idx.next_id + 1]
    IN  IF Len(embedding) = 0
        THEN [index |-> taken, res |-> EmptyEmbeddings]
        ELSE IF idx.dimensions # None /\ Len(embedding) # idx.dimensions[1]
        THEN [index |-> taken,
              res |-> DimensionMismatch(idx.dimensions[1], Len(embedding))]
        ELSE [index |->
                [documents |-> Append(idx.documents,
                                      [id |-> idx.next_id, path |-> path,
                                       embedding |-> embedding, snippet |-> snippet]),
                 dimensions |-> Some(Len(embedding)),
                 next_id |-> idx.next_id + 1],
              res |-> Ok(idx.next_id, <<>>)]

\* VectorIndex::add_document: the index afterwards and the value returned
VectorIndex_add_document(idx, path, embedding, snippet) ==
    IF Len(embedding) = 0
    THEN [index |-> idx, res |-> EmptyEmbeddings]
    ELSE IF idx.dimensions # None /\ Len(embedding) # idx.dimensions[1]
    THEN [index |-> idx, res |-> DimensionMismatch(idx.dimensions[1], Len(embedding))]
    ELSE
        LET id == idx.next_id
        IN  [index |->
                [documents |-> Append(idx.documents,
                                      [id |-> id, path |-> path,
                                       embedding |-> embedding, snippet |-> snippet]),
                 dimensions |-> Some(Len(embedding)),
                 next_id |-> idx.next_id + 1],
             res |-> Ok(id, <<>>)]

\* the documents of the index with their similarity to the query, sorted by
\* similarity (descending); doc is the position of the document in the index
Ranked(idx, query_embedding) ==
    LET docs == idx.documents
        sims == [i \in 1..Len(docs) |->
                    cosine_similarity(docs[i].embedding, query_embedding)]
        c == [i \in 1..Len(docs) |->
                [j \in 1..Len(docs) |-> DescCmp(sims[i], sims[j])]]
        p == SortedOrder(c, Len(docs))
    IN  [i \in 1..Len(docs) |->
            [path |-> docs[p[i]].path,
             score |-> sims[p[i]],
             snippet |-> docs[p[i]].snippet,
             doc |-> p[i]]]

\* search comparing the dimensions before it looks for an empty query
VectorIndex_search_dims_first(idx, query_embedding, k) ==
    IF idx.dimensions # None /\ Len(query_embedding) # idx.dimensions[1]
    THEN DimensionMismatch(idx.dimensions[1], Len(query_embedding))
    ELSE IF Len(query_embedding) = 0
    THEN EmptyEmbeddings
    ELSE Ok(0, Take(Ranked(idx, query_embedding), k))

\* VectorIndex::search: the value returned (the index is not written)
VectorIndex_search(idx, query_embedding, k) ==
    IF Len(query_embedding) = 0
    THEN EmptyEmbeddings
    ELSE IF idx.dimensions # None /\ Len(query_embedding) # idx.dimensions[1]
    THEN DimensionMismatch(idx.dimensions[1], Len(query_embedding))
    ELSE Ok(0, Take(Ranked(idx, query_embedding), k))

\* clear leaving the dimensionality of the dropped documents in place
VectorIndex_clear_keeps_dimensions(idx) ==
    [documents |-> <<>>, dimensions |-> idx.dimensions, next_id |-> 0]

\* clear leaving the id counter where it was
VectorIndex_clear_keeps_next_id(idx) ==
    [documents |-> <<>>, dimensions |-> None, next_id |-> idx.next_id]

\* VectorIndex::clear
VectorIndex_clear(idx) == NewVectorIndex

---------------------------------------------------------------------------
(* Tokenizer (search/src/tokenizer.rs).  A text is a sequence of           *)
(* characters, a term a non-empty sequence of characters.                  *)

\* char::to_lowercase, on the characters the texts below are made of
to_lowercase(ch) ==
    CASE ch = "F" -> "f"
      [] ch = "D" -> "d"
      [] ch = "W" -> "w"
      [] ch = "T" -> "t"
      [] OTHER -> ch

\* char::is_alphanumeric
is_alphanumeric(ch) == ch \notin { " ", ",", "-", "." }

\* the length in bytes of a character in UTF-8
len_utf8(ch) == IF ch = "é" THEN 2 ELSE 1

\* str::len: the number of bytes, b for every character of b bytes
StrLen(s) ==
    LET chars(b) == Cardinality({ i \in 1..Len(s) : len_utf8(s[i]) = b })
    IN  chars(1) + 2 * chars(2) + 3 * chars(3) + 4 * chars(4)

\* str::split at every character that is not alphanumeric: the pieces of
\* text between two successive separators, the ends of text counting as
\* separators (a piece is empty where two separators are adjacent)
Split(text) ==
    LET cuts == { i \in 1..Len(text) : ~is_alphanumeric(text[i]) }
                    \cup { 0, Len(text) + 1 }
        cut(k) == CHOOSE p \in cuts : Cardinality({ q \in cuts : q < p }) = k
    IN  [k \in 1..(Cardinality(cuts) - 1) |->
            SubSeq(text, cut(k - 1) + 1, cut(k) - 1)]

KeptPiece(s) == s # <<>> /\ StrLen(s) > 2

tokenize(text) ==
    SelectSeq(Split([i \in 1..Len(text) |-> to_lowercase(text[i])]),
              KeptPiece)

Stopwords ==
    { <<"t", "h", "e">>, <<"a">>, <<"a", "n">>, <<"a", "n", "d">>, <<"o", "r">>,
      <<"i", "s">>, <<"i", "n">>, <<"a", "t">>, <<"t", "o">>, <<"f", "o", "r">>,
      <<"o", "f">>, <<"o", "n">>, <<"w", "i", "t", "h">>, <<"b", "y">>,
      <<"f", "r", "o", "m">> }

\* is_stopword without the word "an"
is_stopword_without_an(word) == word \in Stopwords \ { <<"a", "n">> }

is_stopword(word) == word \in Stopwords

NotStopword(t) == ~is_stopword(t)

\* remove_stopwords that filters nothing
remove_stopwords_keeps_all(tokens) == tokens

remove_stopwords(tokens) == SelectSeq(tokens, NotStopword)

---------------------------------------------------------------------------
(* f32 in BM25 scoring: a number kept to 1/Scale (v stands for v/Scale),   *)
(* an infinity or NaN.  The scores are sums of a few quotients of small    *)
(* counts, so no operation overflows; division by zero is what matters.    *)

QZero == Num(0)
QOne == Num(Scale)
QHalf == Num(Scale \div 2)

\* usize as f32
AsF32(n) == Num(n * Scale)

QAdd(x, y) ==
    IF x.k = "nan" \/ y.k = "nan" THEN NaN
    ELSE IF x.k = "num" /\ y.k = "num" THEN Num(x.v + y.v)
    ELSE IF x.k = "inf" /\ y.k = "inf" THEN (IF x.v = y.v THEN x ELSE NaN)
    ELSE IF x.k = "inf" THEN x
    ELSE y

QNeg(x) == IF x.k = "nan" THEN NaN ELSE [k |-> x.k, v |-> 0 - x.v]

QSub(x, y) == QAdd(x, QNeg(y))

QMul(x, y) ==
    IF x.k = "nan" \/ y.k = "nan" THEN NaN
    ELSE IF x.k = "num" /\ y.k = "num"
         THEN Num(Sign(x.v) * Sign(y.v)
                    * ((x.v * Sign(x.v) * y.v * Sign(y.v)) \div Scale))
    ELSE IF Sign(x.v) * Sign(y.v) = 0 THEN NaN
    ELSE [k |-> "inf", v |-> Sign(x.v) * Sign(y.v)]

QDiv(x, y) ==
    IF x.k = "nan" \/ y.k = "nan" THEN NaN
    ELSE IF x.k = "inf" /\ y.k = "inf" THEN NaN
    ELSE IF x.k = "inf"
         THEN [k |-> "inf", v |-> x.v * (IF y.v < 0 THEN -1 ELSE 1)]
    ELSE IF y.k = "inf" THEN QZero
    ELSE IF y.v = 0
         THEN (IF x.v = 0 THEN NaN ELSE [k |-> "inf", v |-> Sign(x.v)])
    ELSE Num(Sign(x.v) * Sign(y.v)
               * ((x.v * Sign(x.v) * Scale) \div (y.v * Sign(y.v))))

\* f32::ln of a finite x > 0, by ln x = 2 atanh((x - 1)/(x + 1))
LnSeries(x) ==
    LET z == QDiv(QSub(x, QOne), QAdd(x, QOne))
        z2 == QMul(z, z)
        z3 == QMul(z, z2)
        z5 == QMul(z3, z2)
        z7 == QMul(z5, z2)
        z9 == QMul(z7, z2)
        z11 == QMul(z9, z2)
    IN  Num(2 * (z.v + z3.v \div 3 + z5.v \div 5 + z7.v \div 7 + z9.v \div 9
                   + z11.v \div 11))

\* f32::ln
QLn(x) ==
    IF x.k = "nan" THEN NaN
    ELSE IF x.k = "inf" THEN (IF x.v > 0 THEN PosInf ELSE NaN)
    ELSE IF x.v < 0 THEN NaN
    ELSE IF x.v = 0 THEN NegInf
    ELSE IF x.v >= Scale THEN LnSeries(x)
    ELSE QNeg(LnSeries(QDiv(QOne, x)))

\* f32::partial_cmp on these values
QCmp(x, y) ==
    IF x.k = "nan" \/ y.k = "nan" THEN "None"
    ELSE LET xv == IF x.k = "inf" THEN x.v ELSE 0
             yv == IF y.k = "inf" THEN y.v ELSE 0
         IN  IF xv < yv THEN "Less"
             ELSE IF xv > yv THEN "Greater"
             ELSE IF x.k = "inf" THEN "Equal"
             ELSE IF x.v < y.v THEN "Less"
             ELSE IF x.v > y.v THEN "Greater"
             ELSE "Equal"

---------------------------------------------------------------------------
(* BM25Index (search/src/index.rs) *)

K1 == (3 * Scale) \div 2     \* 1.5
B == (3 * Scale) \div 4      \* 0.75

NewBM25Index ==
    [documents |-> <<>>, term_docs |-> <<>>, term_freqs |-> <<>>,
     avg_doc_len |-> QZero]

\* a map with the entry for key set to value
Put(map, key, value) ==
    [x \in DOMAIN map \cup {key} |-> IF x = key THEN value ELSE map[x]]

\* the sum of the lengths of the values of a map of sequences
RECURSIVE TotalLen(_, _)
TotalLen(map, keys) ==
    IF keys = {} THEN 0
    ELSE LET key == CHOOSE x \in keys : TRUE
         IN  Len(map[key]) + TotalLen(map, keys \ {key})

\* how often term occurs in tokens
Count(tokens, term) == Cardinality({ i \in 1..Len(tokens) : tokens[i] = term })

\* add_document that keeps a running average: the previous average times
\* the previous count plus the new length, over the new count
BM25Index_add_document_running_average(idx, doc_id, content) ==
    LET tokens == remove_stopwords(tokenize(content))
        terms == Range(tokens)
        documents == Put(idx.documents, doc_id, tokens)
        before == AsF32(Cardinality(DOMAIN idx.documents))
    IN  [documents |-> documents,
         term_docs |->
            [t \in DOMAIN idx.term_docs \cup terms |->
                IF t \in terms
                THEN (IF t \in DOMAIN idx.term_docs THEN idx.term_docs[t] ELSE {})
                        \cup {doc_id}
                ELSE idx.term_docs[t]],
         term_freqs |->
            [t \in DOMAIN idx.term_freqs \cup terms |->
                IF t \in terms
                THEN Put(IF t \in DOMAIN idx.term_freqs THEN idx.term_freqs[t]
                         ELSE <<>>,
                         doc_id, Count(tokens, t))
                ELSE idx.term_freqs[t]],
         avg_doc_len |->
            QDiv(QAdd(QMul(idx.avg_doc_len, before), AsF32(Len(tokens))),
                 AsF32(Cardinality(DOMAIN documents)))]

\* add_document that records how often a term occurs again after its first
\* occurrence
BM25Index_add_document_counts_repeats(idx, doc_id, content) ==
    LET tokens == remove_stopwords(tokenize(content))
        terms == Range(tokens)
        documents == Put(idx.documents, doc_id, tokens)
    IN  [documents |-> documents,
         term_docs |->
            [t \in DOMAIN idx.term_docs \cup terms |->
                IF t \in terms
                THEN (IF t \in DOMAIN idx.term_docs THEN idx.term_docs[t] ELSE {})
                        \cup {doc_id}
                ELSE idx.term_docs[t]],
         term_freqs |->
            [t \in DOMAIN idx.term_freqs \cup terms |->
                IF t \in terms
                THEN Put(IF t \in DOMAIN idx.term_freqs THEN idx.term_freqs[t]
                         ELSE <<>>,
                         doc_id, Count(tokens, t) - 1)
                ELSE idx.term_freqs[t]],
         avg_doc_len |->
            QDiv(AsF32(TotalLen(documents, DOMAIN documents)),
                 AsF32(Cardinality(DOMAIN documents)))]

\* BM25Index::add_document
BM25Index_add_document(idx, doc_id, content) ==
    LET tokens == remove_stopwords(tokenize(content))
        terms == Range(tokens)
        documents == Put(idx.documents, doc_id, tokens)
        term_docs ==
            [t \in DOMAIN idx.term_docs \cup terms |->
                IF t \in terms
                THEN (IF t \in DOMAIN idx.term_docs THEN idx.term_docs[t] ELSE {})
                        \cup {doc_id}
                ELSE idx.term_docs[t]]
        term_freqs ==
            [t \in DOMAIN idx.term_freqs \cup terms |->
                IF t \in terms
                THEN Put(IF t \in DOMAIN idx.term_freqs THEN idx.term_freqs[t]
                         ELSE <<>>,
                         doc_id, Count(tokens, t))
                ELSE idx.term_freqs[t]]
        total_len == TotalLen(documents, DOMAIN documents)
    IN  [documents |-> documents,
         term_docs |-> term_docs,
         term_freqs |-> term_freqs,
         avg_doc_len |-> QDiv(AsF32(total_len),
                              AsF32(Cardinality(DOMAIN documents)))]

\* the inverse document frequency without the + 1.0 inside the logarithm
idf_without_one(idx, doc_count) ==
    LET n == AsF32(Cardinality(DOMAIN idx.documents))
    IN  QLn(QDiv(QAdd(QSub(n, AsF32(doc_count)), QHalf),
                 QAdd(AsF32(doc_count), QHalf)))

\* BM25Index::idf
idf(idx, doc_count) ==
    LET n == AsF32(Cardinality(DOMAIN idx.documents))
    IN  QLn(QAdd(QDiv(QAdd(QSub(n, AsF32(doc_count)), QHalf),
                      QAdd(AsF32(doc_count), QHalf)),
                 QOne))

\* BM25Index::bm25_score
bm25_score(term_freq, idf_value, doc_len, avg_doc_len) ==
    LET numerator == QMul(term_freq, QAdd(Num(K1), QOne))
        denominator ==
            QAdd(term_freq,
                 QMul(Num(K1),
                      QAdd(QSub(QOne, Num(B)),
                           QMul(Num(B), QDiv(doc_len, avg_doc_len)))))
    IN  QMul(idf_value, QDiv(numerator, denominator))

\* the partial score search adds to scores[doc_id] for one query token
Partial(idx, token, doc_id) ==
    LET term_freq ==
            IF token \in DOMAIN idx.term_freqs
               /\ doc_id \in DOMAIN idx.term_freqs[token]
            THEN idx.term_freqs[token][doc_id] ELSE 0
        doc_len ==
            IF doc_id \in DOMAIN idx.documents
            THEN Len(idx.documents[doc_id]) ELSE 0
    IN  bm25_score(AsF32(term_freq),
                   idf(idx, Cardinality(idx.term_docs[token])),
                   AsF32(doc_len),
                   idx.avg_doc_len)

\* the scores map of search after the first n query tokens
RECURSIVE Accumulate(_, _, _)
Accumulate(idx, tokens, n) ==
    IF n = 0 THEN <<>>
    ELSE LET scores == Accumulate(idx, tokens, n - 1)
             token == tokens[n]
             docs == IF token \in DOMAIN idx.term_docs
                     THEN idx.term_docs[token] ELSE {}
         IN  [d \in DOMAIN scores \cup docs |->
                IF d \in docs
                THEN QAdd(IF d \in DOMAIN scores THEN scores[d] ELSE QZero,
                          Partial(idx, token, d))
                ELSE scores[d]]

\* the orders a HashMap can be iterated in: the sequences of its keys
Orderings(keys) ==
    { s \in [1..Cardinality(keys) -> keys] :
        \A i, j \in 1..Cardinality(keys) : i # j => s[i] # s[j] }

\* the comparator of the sort: |a, b| b.1.partial_cmp(&a.1).unwrap_or(Equal)
QDescCmp(a, b) ==
    LET c == QCmp(b, a) IN IF c = "None" THEN "Equal" ELSE c

\* the (id, score) pairs collected in the order ids, sorted by score
SortRanked(scores, ids) ==
    LET n == Len(ids)
        c == [i \in 1..n |->
                [j \in 1..n |-> QDescCmp(scores[ids[i]], scores[ids[j]])]]
        p == SortedOrder(c, n)
    IN  [i \in 1..n |-> [id |-> ids[p[i]], score |-> scores[ids[p[i]]]]]

\* search returning the pairs in the order the map yields them
BM25Index_search_unsorted(idx, query, top_k) ==
    LET tokens == remove_stopwords(tokenize(query))
        scores == Accumulate(idx, tokens, Len(tokens))
    IN  IF tokens = <<>> THEN { <<>> }
        ELSE { Take([i \in 1..Len(ids) |->
                        [id |-> ids[i], score |-> scores[ids[i]]]], top_k)
               : ids \in Orderings(DOMAIN scores) }

\* BM25Index::search: the values it can return, one for every order in which
\* the scores map can be iterated (the index is not written)
BM25Index_search(idx, query, top_k) ==
    LET tokens == remove_stopwords(tokenize(query))
        scores == Accumulate(idx, tokens, Len(tokens))
    IN  IF tokens = <<>> THEN { <<>> }
        ELSE { Take(SortRanked(scores, ids), top_k)
               : ids \in Orderings(DOMAIN scores) }

\* clear that leaves the postings and the average length in place
BM25Index_clear_keeps_postings(idx) ==
    [idx EXCEPT !.documents = <<>>]

\* BM25Index::clear
BM25Index_clear(idx) == NewBM25Index

---------------------------------------------------------------------------
(* SearchService (search/src/lib.rs): a BM25 index and the raw contents *)

\* the number of characters of a snippet
SnippetChars == 200

\* the snippet of a path that has no stored content
Placeholder == <<".", ".", ".">>

SvcOk(hits) == [kind |-> "Ok", hits |-> hits]

NewSearchService == [index |-> NewBM25Index, documents |-> <<>>]

\* index_document that keeps the content already stored for a path
SearchService_index_document_keeps_first(svc, path, content) ==
    [index |-> BM25Index_add_document(svc.index, path, content),
     documents |-> IF path \in DOMAIN svc.documents THEN svc.documents
                   ELSE Put(svc.documents, path, content)]

\* SearchService::index_document
SearchService_index_document(svc, path, content) ==
    [index |-> BM25Index_add_document(svc.index, path, content),
     documents |-> Put(svc.documents, path, content)]

\* the SearchResult of one (path, score) pair of the index
ToSearchResult(svc, hit) ==
    [path |-> hit.id,
     score |-> hit.score,
     snippet |-> IF hit.id \in DOMAIN svc.documents
                 THEN Take(svc.documents[hit.id], SnippetChars)
                 ELSE Placeholder]

\* SearchService::search: the values it can return
SearchService_search(svc, query, top_k) ==
    { SvcOk([i \in 1..Len(results) |-> ToSearchResult(svc, results[i])])
      : results \in BM25Index_search(svc.index, query, top_k) }

\* clear that empties the index and leaves the contents in place
SearchService_clear_keeps_contents(svc) ==
    [index |-> BM25Index_clear(svc.index), documents |-> svc.documents]

\* SearchService::clear
SearchService_clear(svc) ==
    [index |-> BM25Index_clear(svc.index), documents |-> <<>>]

\* SearchService::doc_count
SearchService_doc_count(svc) == Cardinality(DOMAIN svc.documents)

---------------------------------------------------------------------------
(* EmbeddingCache (llm/src/cache.rs): a memory map over a directory of     *)
(* JSON files, one per hash.  An embedding is a sequence of f32.           *)

\* a CacheResult: Ok of a value (an Option, a CacheEntry or nothing), Ok of
\* a number of files, or Err of a CacheError
CacheOk(value) == [kind |-> "Ok", value |-> value, removed |-> 0, error |-> ""]
CacheRemoved(removed) ==
    [kind |-> "Ok", value |-> <<>>, removed |-> removed, error |-> ""]
CacheErr(error) ==
    [kind |-> "Err", value |-> <<>>, removed |-> 0, error |-> error]

\* DefaultHasher over text and model: distinct pairs of the inputs below get
\* distinct hashes
hash_text(text, model) ==
    (IF text = "hello" THEN 1 ELSE 2) * 10 + (IF model = "test-model" THEN 1 ELSE 2)

\* serde_json writes a finite f32 as a number that parses back to the same
\* f32, and NaN and the infinities as null
JNull == [k |-> "null", v |-> 0]
f32_to_json(x) == IF x.k = "num" THEN x ELSE JNull

\* the bytes serde_json writes for a component: "null", or the digits of
\* the number, a sign if it is negative, and ".0"
f32_len(x) ==
    IF x = JNull THEN 4
    ELSE LET a == IF x.v < 0 THEN 0 - x.v ELSE x.v
         IN  (IF x.v < 0 THEN 1 ELSE 0)
               + (IF a < 10 THEN 1 ELSE IF a < 100 THEN 2 ELSE 3) + 2

\* the bytes of the array "[c1,...,cn]"
RECURSIVE components_len(_)
components_len(embedding) ==
    IF embedding = <<>> THEN 0
    ELSE f32_len(Head(embedding)) + components_len(Tail(embedding))

\* the length of the JSON text of an entry, less the bytes of the other
\* three fields, which are as many for every entry of one hash
json_len(text) ==
    2 + components_len(text.embedding)
      + (IF text.embedding = <<>> THEN 0 ELSE Len(text.embedding) - 1)

\* serde_json::to_string(&CacheEntry): the fields of the text and its length
to_string(entry) ==
    LET embedding == [i \in 1..Len(entry.embedding) |->
                         f32_to_json(entry.embedding[i])]
    IN  [text_hash |-> entry.text_hash,
         embedding |-> embedding,
         model |-> entry.model,
         timestamp |-> entry.timestamp,
         size |-> json_len([embedding |-> embedding])]

\* serde_json::from_str::<CacheEntry>: a text cut short or followed by other
\* bytes is no JSON value, and null is no f32
from_str(contents) ==
    IF contents.size # json_len(contents) THEN CacheErr("SerializationError")
    ELSE IF \E i \in 1..Len(contents.embedding) : contents.embedding[i] = JNull
    THEN CacheErr("SerializationError")
    ELSE CacheOk(contents)

\* a file of no bytes
EmptyFile ==
    [text_hash |-> 0, embedding |-> <<>>, model |-> "", timestamp |-> 0,
     size |-> 0]

\* File::create: the file is there and empty
File_create(files, hash) == Put(files, hash, EmptyFile)

\* write_all from offset 0: the bytes of contents, followed by the bytes
\* the file held beyond them
write_all(files, hash, contents) ==
    Put(files, hash,
        [contents EXCEPT !.size = IF files[hash].size > contents.size
                                  THEN files[hash].size ELSE contents.size])

\* fs::write: File::create, then write_all
fs_write(files, hash, contents) ==
    write_all(File_create(files, hash), hash, contents)

\* EmbeddingCache::new (the directory exists already)
NewEmbeddingCache == [memory_cache |-> <<>>]

\* a map without the keys of gone
Remove(map, gone) == [x \in DOMAIN map \ gone |-> map[x]]

\* trim_memory_cache that lets the map grow one entry beyond the capacity
trim_memory_cache_late(memory_cache) ==
    LET len == Cardinality(DOMAIN memory_cache)
    IN  IF len > max_memory_entries + 1
        THEN { Remove(memory_cache, keys) :
                 keys \in { ks \in SUBSET DOMAIN memory_cache :
                              Cardinality(ks) = len - max_memory_entries - 1 } }
        ELSE { memory_cache }

\* EmbeddingCache::trim_memory_cache: the maps it can leave, one for every
\* choice of the first to_remove keys the map iterates over
trim_memory_cache(memory_cache) ==
    LET len == Cardinality(DOMAIN memory_cache)
    IN  IF len > max_memory_entries
        THEN LET to_remove == len - max_memory_entries
             IN  { Remove(memory_cache, keys) :
                     keys \in { ks \in SUBSET DOMAIN memory_cache :
                                  Cardinality(ks) = to_remove } }
        ELSE { memory_cache }

\* get that reads the file first and the memory map only when there is one
EmbeddingCache_get_file_first(cache, files, text, model) ==
    LET hash == hash_text(text, model)
    IN  IF hash \notin DOMAIN files
        THEN { [cache |-> cache, res |-> CacheOk(None), failed |-> {}] }
        ELSE IF hash \in DOMAIN cache.memory_cache
        THEN { [cache |-> cache,
                res |-> CacheOk(Some(cache.memory_cache[hash])),
                failed |-> {}] }
        ELSE LET entry == from_str(files[hash])
             IN  IF entry.kind = "Err"
                 THEN { [cache |-> cache, res |-> entry, failed |-> {}] }
                 ELSE { [cache |-> cache,
                         res |-> CacheOk(Some(entry.value.embedding)),
                         failed |-> {}] }

\* EmbeddingCache::get: the outcomes it can end with: the cache, the result
\* and the files on which it met an I/O error
EmbeddingCache_get(cache, files, text, model) ==
    LET hash == hash_text(text, model)
    IN  IF hash \in DOMAIN cache.memory_cache
        THEN { [cache |-> cache,
                res |-> CacheOk(Some(cache.memory_cache[hash])),
                failed |-> {}] }
        ELSE IF hash \in DOMAIN files
        THEN LET entry == from_str(files[hash])
             IN  \* fs::read_to_string fails
                 { [cache |-> cache, res |-> CacheErr("IoError"),
                    failed |-> {hash}] }
                 \cup
                 (IF entry.kind = "Err"
                  THEN { [cache |-> cache, res |-> entry, failed |-> {}] }
                  ELSE { [cache |-> [memory_cache |-> m],
                          res |-> CacheOk(Some(entry.value.embedding)),
                          failed |-> {}] :
                         m \in trim_memory_cache(
                                  Put(cache.memory_cache, hash,
                                      entry.value.embedding)) })
        ELSE { [cache |-> cache, res |-> CacheOk(None), failed |-> {}] }

\* EmbeddingCache::put: the outcomes it can end with, timestamp being the
\* time of the call: the cache, the files, the result and the files on which
\* it met an I/O error.  A failing fs::write leaves the file as it was (it
\* could not be opened) or empty (it was opened and not written).
EmbeddingCache_put(cache, files, text, model, embedding, timestamp) ==
    LET hash == hash_text(text, model)
        entry == [text_hash |-> hash, embedding |-> embedding,
                  model |-> model, timestamp |-> timestamp]
    IN  UNION {
          { [cache |-> [memory_cache |-> m],
             files |-> fs_write(files, hash, to_string(entry)),
             res |-> CacheOk(<<>>), failed |-> {}] }
          \cup
          { [cache |-> [memory_cache |-> m], files |-> f,
             res |-> CacheErr("IoError"), failed |-> {hash}] :
            f \in { files, File_create(files, hash) } }
          : m \in trim_memory_cache(Put(cache.memory_cache, hash, embedding)) }

\* seconds of a day
SecondsPerDay == 86400

\* days as i64: the bits of the unsigned value read as a signed one
AsI64(days) == IF days >= 2 ^ (IntBits - 1) THEN days - 2 ^ IntBits ELSE days

\* EmbeddingCache::clear_old: the outcomes it can end with: the files it
\* leaves, the result and the files on which it met an I/O error (the
\* products days * 86400 of the calls below stay within i64).  A file that
\* cannot be read (unread) or parsed is passed over; fs::read_dir failing
\* ends the call before any file, fs::remove_file failing on a file ends it
\* after the files removed before that one.
EmbeddingCache_clear_old(files, days, timestamp) ==
    LET cutoff == timestamp - AsI64(days) * SecondsPerDay
        Old(unread) ==
            { hash \in DOMAIN files \ unread :
                /\ from_str(files[hash]).kind = "Ok"
                /\ from_str(files[hash]).value.timestamp < cutoff }
    IN  { [files |-> files, res |-> CacheErr("IoError"), failed |-> {}] }
        \cup
        { [files |-> Remove(files, Old(unread)),
           res |-> CacheRemoved(Cardinality(Old(unread))),
           failed |-> unread] :
          unread \in SUBSET DOMAIN files }
        \cup
        UNION { UNION { { [files |-> Remove(files, gone),
                           res |-> CacheErr("IoError"),
                           failed |-> unread \cup {hash}] :
                          gone \in SUBSET (Old(unread) \ {hash}) }
                        : hash \in Old(unread) }
                : unread \in SUBSET DOMAIN files }

---------------------------------------------------------------------------
(* Conversation (llm/src/conversation.rs) *)

Roles == { "System", "User", "Assistant" }

\* a Message; its timestamp is read by no operation of Conversation
Message(role, content) == [role |-> role, content |-> content]

Message_system(content) == Message("System", content)

\* the defaults of Conversation::new
DefaultMaxMessages == 20
DefaultMaxTokens == 8000

\* Conversation::new
Conversation_new(system_prompt) ==
    [messages |-> IF system_prompt = None THEN <<>>
                  ELSE << Message_system(system_prompt[1]) >>,
     max_messages |-> DefaultMaxMessages,
     max_tokens |-> Some(DefaultMaxTokens)]

Conversation_with_max_messages(self, max_messages) ==
    [self EXCEPT !.max_messages = max_messages]

Conversation_with_max_tokens(self, max_tokens) ==
    [self EXCEPT !.max_tokens = max_tokens]

\* the front of the queue is a message of role System
HasSystem(messages) == messages # <<>> /\ messages[1].role = "System"

\* one turn of the two removal loops of trim_context: remove(1) behind a
\* system message, pop_front without one, and nothing when the loop breaks
RemoveOldest(messages, has_system) ==
    IF has_system /\ Len(messages) > 1
    THEN << messages[1] >> \o SubSeq(messages, 3, Len(messages))
    ELSE IF ~has_system /\ messages # <<>>
    THEN Tail(messages)
    ELSE messages

\* the first loop of trim_context: while messages.len() > limit
RECURSIVE TrimToCount(_, _, _)
TrimToCount(messages, limit, has_system) ==
    IF Len(messages) > limit
    THEN LET fewer == RemoveOldest(messages, has_system)
         IN  IF fewer = messages THEN messages
             ELSE TrimToCount(fewer, limit, has_system)
    ELSE messages

\* the loop over messages.iter().rev(): keep_count as it leaves the loop,
\* the messages from position i down still to visit
RECURSIVE KeepCount(_, _, _, _, _)
KeepCount(messages, max_tokens, i, total_chars, keep_count) ==
    IF i = 0 THEN keep_count
    ELSE LET total == total_chars + StrLen(messages[i].content)
         IN  IF total \div 4 > max_tokens THEN keep_count
             ELSE KeepCount(messages, max_tokens, i - 1, total, keep_count + 1)

\* the last loop of trim_context: for _ in 0..to_remove
RECURSIVE RemoveTimes(_, _, _)
RemoveTimes(messages, to_remove, has_system) ==
    IF to_remove = 0 THEN messages
    ELSE LET fewer == RemoveOldest(messages, has_system)
         IN  IF fewer = messages THEN messages
             ELSE RemoveTimes(fewer, to_remove - 1, has_system)

\* the second half of trim_context: the trim by tokens
TrimToTokens(messages, max_tokens, has_system) ==
    IF max_tokens = None THEN messages
    ELSE LET counted == KeepCount(messages, max_tokens[1], Len(messages), 0, 0)
             keep_count == IF has_system /\ counted < 1 THEN 1 ELSE counted
             to_remove == IF Len(messages) > keep_count
                          THEN Len(messages) - keep_count ELSE 0
         IN  RemoveTimes(messages, to_remove, has_system)

\* trim_context that takes every message from the front, a system message
\* included
Conversation_trim_context_from_front(self) ==
    LET counted == TrimToCount(self.messages, self.max_messages, FALSE)
    IN  { [conv |-> [self EXCEPT !.messages =
                        TrimToTokens(counted, self.max_tokens, FALSE)],
           panicked |-> FALSE] }

\* Conversation::trim_context: the outcomes it can end with.  The sum
\* max_messages + system_offset exceeds usize for max_messages = usize::MAX
\* behind a system message: a build with overflow checks panics there, and
\* one without wraps to 0.
Conversation_trim_context(self) ==
    LET has_system == HasSystem(self.messages)
        system_offset == IF has_system THEN 1 ELSE 0
        limit == self.max_messages + system_offset
        Trimmed(count_limit) ==
            LET counted == TrimToCount(self.messages, count_limit, has_system)
            IN  [conv |-> [self EXCEPT !.messages =
                              TrimToTokens(counted, self.max_tokens, has_system)],
                 panicked |-> FALSE]
    IN  IF limit >= 2 ^ IntBits
        THEN { [conv |-> self, panicked |-> TRUE],
               Trimmed(limit % (2 ^ IntBits)) }
        ELSE { Trimmed(limit) }

\* Conversation::add_message: the outcomes it can end with
Conversation_add_message(self, message) ==
    Conversation_trim_context(
        [self EXCEPT !.messages = Append(self.messages, message)])

\* Conversation::len
Conversation_len(self) ==
    Cardinality({ i \in 1..Len(self.messages) :
                    self.messages[i].role # "System" })

\* Conversation::clear
Conversation_clear(self) ==
    [self EXCEPT !.messages = IF HasSystem(self.messages)
                              THEN << self.messages[1] >> ELSE <<>>]

---------------------------------------------------------------------------
(* RateLimiter (llm/src/rate_limit.rs) *)

\* Time is counted in ticks, TicksPerMinute to the minute, and tokens in
\* parts of 1/TicksPerMinute token, so that the tokens refilled in a whole
\* number of ticks are a whole number of parts: refill_rate, tokens per
\* second in the code, is parts per tick here, which is requests_per_minute.
\* f64 arithmetic is exact on these values up to rounding, which is not
\* modelled.

\* 1.0 token
OneToken == TicksPerMinute

\* a tokio Mutex: free, or held by a task
Mutex_new == None

\* a lock() that does not wait for the holder
Mutex_lock_ready_unfair(mutex) == TRUE

\* Mutex::lock().await is ready
Mutex_lock_ready(mutex) == mutex = None

\* RateLimiter::new at the instant now
RateLimiter_new(requests_per_minute, instant) ==
    [tokens |-> requests_per_minute * OneToken,
     max_tokens |-> requests_per_minute * OneToken,
     refill_rate |-> requests_per_minute,
     last_refill |-> instant,
     tokens_lock |-> Mutex_new,
     last_refill_lock |-> Mutex_new]

\* the refill of acquire and try_acquire at the instant now
Refilled(self, instant) ==
    LET elapsed == IF instant > self.last_refill
                   THEN instant - self.last_refill ELSE 0
        new_tokens == elapsed * self.refill_rate
    IN  [self EXCEPT !.tokens = Min(self.tokens + new_tokens, self.max_tokens),
                     !.last_refill = instant]

\* the end of the block that holds the two MutexGuards
Unlocked(self) ==
    [self EXCEPT !.tokens_lock = Mutex_new, !.last_refill_lock = Mutex_new]

---------------------------------------------------------------------------
(* Inputs of the BM25 index *)

SP == <<" ">>
the == <<"t", "h", "e">>
quick == <<"q", "u", "i", "c", "k">>
brown == <<"b", "r", "o", "w", "n">>
fox == <<"f", "o", "x">>
lazy == <<"l", "a", "z", "y">>
dog == <<"d", "o", "g">>
cat == <<"c", "a", "t">>

DocIds == { "a", "b" }

Contents ==
    { the \o SP \o quick \o SP \o brown \o SP \o fox,    \* "the quick brown fox"
      the \o SP \o lazy \o SP \o dog,                    \* "the lazy dog"
      <<"F", "o", "x", ",", " ">> \o fox \o SP \o dog,   \* "Fox, fox dog"
      <<"a", "n", " ", "o", "x">> }                      \* "an ox"

Queries ==
    { fox,                                               \* "fox"
      fox \o SP \o fox,                                  \* "fox fox"
      cat,                                               \* "cat"
      <<"T", "h", "e", " ", "D", "o", "g", "-">> \o fox, \* "The Dog-fox"
      <<"o", "f", " ", "a", "n">>,                       \* "of an"
      the \o SP \o <<"W", "i", "t", "h">>,               \* "the With"
      <<>> }                                             \* ""

---------------------------------------------------------------------------
(* Actions of the BM25 index *)

BMCall(op, doc_id, text, top_k, result) ==
    [op |-> op, doc_id |-> doc_id, text |-> text, top_k |-> top_k,
     result |-> result]

BMAdd ==
    /\ \E doc_id \in DocIds, content \in Contents :
        /\ index' = BM25Index_add_document(index, doc_id, content)
        /\ out' = BMCall("add", doc_id, content, 0, <<>>)
    /\ UNCHANGED <<vindex, vout, svc_vars, tok_vars, cache_vars, conv_vars, rate_vars>>

BMSearch ==
    /\ \E query \in Queries, top_k \in 0..MaxTopK :
        \E result \in BM25Index_search(index, query, top_k) :
            out' = BMCall("search", "", query, top_k, result)
    /\ UNCHANGED <<index, vindex, vout, svc_vars, tok_vars, cache_vars, conv_vars, rate_vars>>

BMClear ==
    /\ index' = BM25Index_clear(index)
    /\ out' = BMCall("clear", "", <<>>, 0, <<>>)
    /\ UNCHANGED <<vindex, vout, svc_vars, tok_vars, cache_vars, conv_vars, rate_vars>>

---------------------------------------------------------------------------
(* Inputs of the search service *)

\* s repeated n times
Repeat(s, n) == [i \in 1..(n * Len(s)) |-> s[((i - 1) % Len(s)) + 1]]

QuickBrownFox == the \o SP \o quick \o SP \o brown \o SP \o fox
LazyDog == the \o SP \o lazy \o SP \o dog

\* "fox dog hahaha...ha": 248 characters, more than a snippet holds
LongContent == fox \o SP \o dog \o SP \o Repeat(<<"h", "a">>, 120)

SvcContents == { QuickBrownFox, LazyDog, LongContent }

SvcQueries == Queries \ { cat, fox \o SP \o fox }

---------------------------------------------------------------------------
(* Actions of the search service *)

SvcCall(op, path, text, top_k, res) ==
    [op |-> op, path |-> path, text |-> text, top_k |-> top_k, res |-> res]

SvcIndex ==
    /\ \E path \in DocIds, content \in SvcContents :
        /\ service' = SearchService_index_document(service, path, content)
        /\ sout' = SvcCall("index_document", path, content, 0, SvcOk(<<>>))
        /\ latest' = Put(latest, path, content)
    /\ UNCHANGED <<index, out, vindex, vout, tok_vars, cache_vars, conv_vars, rate_vars>>

SvcSearch ==
    /\ \E query \in SvcQueries, top_k \in 0..MaxTopK :
        \E res \in SearchService_search(service, query, top_k) :
            sout' = SvcCall("search", "", query, top_k, res)
    /\ UNCHANGED <<service, latest, index, out, vindex, vout, tok_vars, cache_vars, conv_vars, rate_vars>>

SvcClear ==
    /\ service' = SearchService_clear(service)
    /\ sout' = SvcCall("clear", "", <<>>, 0, SvcOk(<<>>))
    /\ UNCHANGED <<latest, index, out, vindex, vout, tok_vars, cache_vars, conv_vars, rate_vars>>

---------------------------------------------------------------------------
(* Tokenizer::remove_stopwords on its own *)

\* the terms passed: every stopword and three other words
Words == Stopwords \cup { fox, dog, <<"a", "n", "t">> }

TermLists == UNION { [1..n -> Words] : n \in 0..MaxTerms }

\* one call per behaviour: remove_stopwords reads nothing but its argument
TokRemove ==
    /\ stop_in = <<>>
    /\ \E tokens \in TermLists :
        /\ stop_in' = tokens
        /\ stop_out' = remove_stopwords(tokens)
    /\ UNCHANGED <<index, out, vindex, vout, svc_vars, cache_vars, conv_vars, rate_vars>>

---------------------------------------------------------------------------
(* Inputs of the vector index *)

Big == FloatMax

Vec(s) == [i \in 1..Len(s) |-> Num(s[i])]

Doc(path, s, snippet) == [path |-> path, embedding |-> Vec(s), snippet |-> snippet]

VecInputs ==
    { Doc("/x", <<1, 0>>, "about x"),
      Doc("/y", <<0, 1>>, "about y"),
      Doc("/xy", <<1, 1>>, "about x and y"),
      Doc("/zero", <<0, 0>>, "nothing"),
      Doc("/big", <<Big, 0>>, "large"),
      Doc("/one", <<1>>, "one dimension"),
      Doc("/empty", <<>>, "no embedding") }

QueryEmbeddings ==
    { Vec(<<>>), Vec(<<1>>), Vec(<<3, 1>>), Vec(<<0, 0>>) }

---------------------------------------------------------------------------
(* Actions of the vector index *)

Call(op, embedding, k, res) ==
    [op |-> op, embedding |-> embedding, k |-> k, res |-> res]

VAdd ==
    \E d \in VecInputs :
        LET r == VectorIndex_add_document(vindex, d.path, d.embedding, d.snippet)
        IN  /\ Len(r.index.documents) <= MaxVecDocs
            /\ vindex' = r.index
            /\ vout' = Call("add", d.embedding, 0, r.res)
            /\ UNCHANGED <<index, out, svc_vars, tok_vars, cache_vars, conv_vars, rate_vars>>

VSearch ==
    \E q \in QueryEmbeddings, k \in 0..MaxVecDocs :
        /\ vout' = Call("search", q, k, VectorIndex_search(vindex, q, k))
        /\ UNCHANGED <<vindex, index, out, svc_vars, tok_vars, cache_vars, conv_vars, rate_vars>>

VClear ==
    /\ vindex' = VectorIndex_clear(vindex)
    /\ vout' = Call("clear", <<>>, 0, Ok(0, <<>>))
    /\ UNCHANGED <<index, out, svc_vars, tok_vars, cache_vars, conv_vars, rate_vars>>

---------------------------------------------------------------------------
(* Inputs of the embedding cache *)

Instances == { "A", "B" }

Texts == { "hello", "world" }

Models == { "test-model" }

\* [1.0], [2.0] and [NaN]
Embeddings == { Vec(<<1>>), Vec(<<2>>), <<NaN>> }

\* 0, 1 and u64::MAX
Days == { 0, 1, 2 ^ IntBits - 1 }

---------------------------------------------------------------------------
(* Actions of the embedding cache *)

CacheCall(op, inst, text, model, embedding, days, res, failed) ==
    [op |-> op, inst |-> inst, text |-> text, model |-> model,
     embedding |-> embedding, days |-> days, res |-> res, failed |-> failed]

\* the outcomes of a call in which no file operation fails, or all of them
Allowed(outcomes, io) ==
    IF io THEN outcomes
    ELSE { r \in outcomes : r.failed = {} /\ r.res # CacheErr("IoError") }

\* no instance is in the middle of a put
Idle == \A inst \in Instances : inflight[inst].pc = "idle"

NoPut ==
    [pc |-> "idle", text |-> "", model |-> "", embedding |-> <<>>,
     contents |-> EmptyFile]

\* EmbeddingCache::new on the directory, taking the place of instance inst
CacheNew(inst) ==
    /\ Idle
    /\ caches' = [caches EXCEPT ![inst] = NewEmbeddingCache]
    /\ cout' = CacheCall("new", inst, "", "", <<>>, 0, CacheOk(<<>>), {})
    /\ UNCHANGED <<disk, now, inflight, last_put>>
    /\ UNCHANGED <<index, out, vindex, vout, svc_vars, tok_vars, conv_vars,
                 rate_vars>>

\* get, with file operations that can fail (io) or that succeed
CacheGet(inst, io) ==
    /\ Idle
    /\ \E text \in Texts, model \in Models :
        \E r \in Allowed(EmbeddingCache_get(caches[inst], disk, text, model), io) :
            /\ caches' = [caches EXCEPT ![inst] = r.cache]
            /\ cout' = CacheCall("get", inst, text, model, <<>>, 0, r.res,
                                 r.failed)
    /\ UNCHANGED <<disk, now, inflight, last_put>>
    /\ UNCHANGED <<index, out, vindex, vout, svc_vars, tok_vars, conv_vars,
                 rate_vars>>

\* put from call to return, with no step of another instance in between
CachePut(inst, io) ==
    /\ Idle
    /\ \E text \in Texts, model \in Models, embedding \in Embeddings :
        \E r \in Allowed(EmbeddingCache_put(caches[inst], disk, text, model,
                                             embedding, now), io) :
            /\ caches' = [caches EXCEPT ![inst] = r.cache]
            /\ disk' = r.files
            /\ cout' = CacheCall("put", inst, text, model, embedding, 0, r.res,
                                 r.failed)
            /\ last_put' =
                  IF r.res.kind = "Ok"
                  THEN Put(last_put, hash_text(text, model),
                           [embedding |-> embedding, purged |-> FALSE])
                  ELSE last_put
    /\ UNCHANGED <<now, inflight>>
    /\ UNCHANGED <<index, out, vindex, vout, svc_vars, tok_vars, conv_vars,
                 rate_vars>>

CacheClearOld(inst, io) ==
    /\ Idle
    /\ \E days \in Days :
        \E r \in Allowed(EmbeddingCache_clear_old(disk, days, now), io) :
            /\ disk' = r.files
            /\ cout' = CacheCall("clear_old", inst, "", "", <<>>, days, r.res,
                                 r.failed)
            /\ last_put' = [h \in DOMAIN last_put |->
                               IF h \in DOMAIN disk \ DOMAIN r.files
                               THEN [last_put[h] EXCEPT !.purged = TRUE]
                               ELSE last_put[h]]
    /\ UNCHANGED <<caches, now, inflight>>
    /\ UNCHANGED <<index, out, vindex, vout, svc_vars, tok_vars, conv_vars,
                 rate_vars>>

\* the embeddings two instances put for one pair: their JSON texts differ in
\* length, "[1.0]" and "[10.0]"
RaceEmbeddings == { Vec(<<1>>), Vec(<<10>>) }

\* put, up to fs::write: the insert into the memory tier, the trim, the
\* timestamp and the JSON text
PutBegin(inst) ==
    /\ inflight[inst].pc = "idle"
    /\ \E text \in Texts, model \in Models, embedding \in RaceEmbeddings :
        LET hash == hash_text(text, model)
            entry == [text_hash |-> hash, embedding |-> embedding,
                      model |-> model, timestamp |-> now]
        IN  \E m \in trim_memory_cache(
                         Put(caches[inst].memory_cache, hash, embedding)) :
                /\ caches' = [caches EXCEPT ![inst] = [memory_cache |-> m]]
                /\ inflight' = [inflight EXCEPT ![inst] =
                                  [pc |-> "create", text |-> text,
                                   model |-> model, embedding |-> embedding,
                                   contents |-> to_string(entry)]]
    /\ UNCHANGED <<disk, now, cout, last_put>>
    /\ UNCHANGED <<index, out, vindex, vout, svc_vars, tok_vars, conv_vars,
                 rate_vars>>

\* fs::write of put, first half: File::create opens the file and empties it
PutCreate(inst) ==
    /\ inflight[inst].pc = "create"
    /\ disk' = File_create(disk, hash_text(inflight[inst].text,
                                           inflight[inst].model))
    /\ inflight' = [inflight EXCEPT ![inst].pc = "write"]
    /\ UNCHANGED <<caches, now, cout, last_put>>
    /\ UNCHANGED <<index, out, vindex, vout, svc_vars, tok_vars, conv_vars,
                 rate_vars>>

\* fs::write of put, second half: write_all from the start of the file, and
\* the return of put
PutWrite(inst) ==
    /\ inflight[inst].pc = "write"
    /\ LET put == inflight[inst]
           hash == hash_text(put.text, put.model)
       IN  /\ disk' = write_all(disk, hash, put.contents)
           /\ cout' = CacheCall("put", inst, put.text, put.model,
                                put.embedding, 0, CacheOk(<<>>), {})
           /\ last_put' = Put(last_put, hash,
                              [embedding |-> put.embedding, purged |-> FALSE])
    /\ inflight' = [inflight EXCEPT ![inst] = NoPut]
    /\ UNCHANGED <<caches, now>>
    /\ UNCHANGED <<index, out, vindex, vout, svc_vars, tok_vars, conv_vars,
                 rate_vars>>

\* a day passes
Tick ==
    /\ now < MaxClock * SecondsPerDay
    /\ now' = now + SecondsPerDay
    /\ UNCHANGED <<caches, disk, cout, inflight, last_put>>
    /\ UNCHANGED <<index, out, vindex, vout, svc_vars, tok_vars, conv_vars,
                 rate_vars>>

---------------------------------------------------------------------------
(* Inputs of the conversation *)

\* None, and "System" (6 bytes)
SystemPrompts == { None, Some(<<"S", "y", "s", "t", "e", "m">>) }

\* "hey!" (4 bytes) and "12345678" (8 bytes)
ConvContents ==
    { <<"h", "e", "y", "!">>, <<"1", "2", "3", "4", "5", "6", "7", "8">> }

\* the values of max_messages: the small ones and usize::MAX
MessageLimits == 0..MaxMessages \cup { 2 ^ IntBits - 1 }

\* the values of max_tokens
Budgets == { None } \cup { Some(t) : t \in 0..MaxBudget }

---------------------------------------------------------------------------
(* Actions of the conversation *)

ConvCall(op, message, panicked) ==
    [op |-> op, message |-> message, panicked |-> panicked]

NoMessage == Message("", <<>>)

\* Conversation::new(..).with_max_messages(..).with_max_tokens(..)
ConvNew ==
    /\ \E system_prompt \in SystemPrompts, max_messages \in MessageLimits,
          max_tokens \in Budgets :
        /\ conv' = Conversation_with_max_tokens(
                       Conversation_with_max_messages(
                           Conversation_new(system_prompt), max_messages),
                       max_tokens)
        /\ given' = IF system_prompt = None THEN None
                    ELSE Some(Message_system(system_prompt[1]))
    /\ added' = <<>>
    /\ cvout' = ConvCall("new", NoMessage, FALSE)
    /\ UNCHANGED <<index, out, vindex, vout, svc_vars, tok_vars, cache_vars,
                   rate_vars>>

\* add_message on a conversation no call of which has panicked
ConvAdd ==
    /\ ~cvout.panicked
    /\ Len(added) < MaxAdds
    /\ \E role \in Roles, content \in ConvContents :
        \E r \in Conversation_add_message(conv, Message(role, content)) :
            /\ conv' = r.conv
            /\ cvout' = ConvCall("add_message", Message(role, content),
                                 r.panicked)
            /\ added' = Append(added, Message(role, content))
    /\ UNCHANGED given
    /\ UNCHANGED <<index, out, vindex, vout, svc_vars, tok_vars, cache_vars,
                   rate_vars>>

ConvClear ==
    /\ ~cvout.panicked
    /\ conv' = Conversation_clear(conv)
    /\ cvout' = ConvCall("clear", NoMessage, FALSE)
    /\ added' = <<>>
    /\ UNCHANGED given
    /\ UNCHANGED <<index, out, vindex, vout, svc_vars, tok_vars, cache_vars,
                   rate_vars>>

---------------------------------------------------------------------------
(* Inputs of the rate limiter *)

\* the tasks that share the limiter
Tasks == { "t1", "t2" }

Rates == 0..MaxRate

---------------------------------------------------------------------------
(* Actions of the rate limiter *)

\* a task outside every call of the limiter; available is the token count
\* its refill left
Resting == [pc |-> "idle", op |-> "", available |-> 0]

RateCall(op, task, res, available) ==
    [op |-> op, task |-> task, res |-> res, available |-> available]

NewLedger(instant) == [grants |-> 0, created |-> instant]

\* RateLimiter::new, taking the place of a limiter no task is using
RateNew ==
    /\ \A task \in Tasks : callers[task].pc = "idle"
    /\ \E requests_per_minute \in Rates :
        /\ limiter' = RateLimiter_new(requests_per_minute, clock)
        /\ ledger' = NewLedger(clock)
    /\ rlout' = RateCall("new", "", TRUE, 0)
    /\ UNCHANGED <<callers, clock>>
    /\ UNCHANGED <<index, out, vindex, vout, svc_vars, tok_vars, cache_vars,
                   conv_vars>>

\* a task calls acquire or try_acquire
RateBegin(task) ==
    /\ callers[task].pc = "idle"
    /\ \E op \in { "acquire", "try_acquire" } :
        callers' = [callers EXCEPT ![task] =
                       [pc |-> "lock_tokens", op |-> op, available |-> 0]]
    /\ UNCHANGED <<limiter, clock, rlout, ledger>>
    /\ UNCHANGED <<index, out, vindex, vout, svc_vars, tok_vars, cache_vars,
                   conv_vars>>

\* self.tokens.lock().await
LockTokens(task) ==
    /\ callers[task].pc = "lock_tokens"
    /\ Mutex_lock_ready(limiter.tokens_lock)
    /\ limiter' = [limiter EXCEPT !.tokens_lock = Some(task)]
    /\ callers' = [callers EXCEPT ![task].pc = "lock_last_refill"]
    /\ UNCHANGED <<clock, rlout, ledger>>
    /\ UNCHANGED <<index, out, vindex, vout, svc_vars, tok_vars, cache_vars,
                   conv_vars>>

\* self.last_refill.lock().await
LockLastRefill(task) ==
    /\ callers[task].pc = "lock_last_refill"
    /\ Mutex_lock_ready(limiter.last_refill_lock)
    /\ limiter' = [limiter EXCEPT !.last_refill_lock = Some(task)]
    /\ callers' = [callers EXCEPT ![task].pc = "refill"]
    /\ UNCHANGED <<clock, rlout, ledger>>
    /\ UNCHANGED <<index, out, vindex, vout, svc_vars, tok_vars, cache_vars,
                   conv_vars>>

\* Instant::now() and the four lines of the refill
Refill(task) ==
    /\ callers[task].pc = "refill"
    /\ limiter' = Refilled(limiter, clock)
    /\ callers' = [callers EXCEPT ![task].pc = "test",
                                  ![task].available = limiter'.tokens]
    /\ UNCHANGED <<clock, rlout, ledger>>
    /\ UNCHANGED <<index, out, vindex, vout, svc_vars, tok_vars, cache_vars,
                   conv_vars>>

\* if *tokens >= 1.0, and what follows when it is not: try_acquire returns
\* false, acquire goes to sleep; either way the guards are dropped
TestTokens(task) ==
    /\ callers[task].pc = "test"
    /\ IF limiter.tokens >= OneToken
       THEN /\ callers' = [callers EXCEPT ![task].pc = "consume"]
            /\ UNCHANGED <<limiter, rlout>>
       ELSE /\ limiter' = Unlocked(limiter)
            /\ IF callers[task].op = "try_acquire"
               THEN /\ callers' = [callers EXCEPT ![task] = Resting]
                    /\ rlout' = RateCall("try_acquire", task, FALSE,
                                         callers[task].available)
               ELSE /\ callers' = [callers EXCEPT ![task].pc = "sleep"]
                    /\ UNCHANGED rlout
    /\ UNCHANGED <<clock, ledger>>
    /\ UNCHANGED <<index, out, vindex, vout, svc_vars, tok_vars, cache_vars,
                   conv_vars>>

\* *tokens -= 1.0 and the return: the guards are dropped
Consume(task) ==
    /\ callers[task].pc = "consume"
    /\ limiter' = Unlocked([limiter EXCEPT !.tokens = limiter.tokens - OneToken])
    /\ callers' = [callers EXCEPT ![task] = Resting]
    /\ rlout' = RateCall(callers[task].op, task, TRUE, callers[task].available)
    /\ ledger' = [ledger EXCEPT !.grants = ledger.grants + 1]
    /\ UNCHANGED clock
    /\ UNCHANGED <<index, out, vindex, vout, svc_vars, tok_vars, cache_vars,
                   conv_vars>>

\* the sleep of acquire is over (50 ms, less than a tick)
Wake(task) ==
    /\ callers[task].pc = "sleep"
    /\ callers' = [callers EXCEPT ![task].pc = "lock_tokens"]
    /\ UNCHANGED <<limiter, clock, rlout, ledger>>
    /\ UNCHANGED <<index, out, vindex, vout, svc_vars, tok_vars, cache_vars,
                   conv_vars>>

\* a tick passes
RateTick ==
    /\ clock < MaxTicks
    /\ clock' = clock + 1
    /\ UNCHANGED <<limiter, callers, rlout, ledger>>
    /\ UNCHANGED <<index, out, vindex, vout, svc_vars, tok_vars, cache_vars,
                   conv_vars>>

---------------------------------------------------------------------------
(* Specifications *)

Init ==
    /\ index = NewBM25Index
    /\ out = BMCall("none", "", <<>>, 0, <<>>)
    /\ vindex = NewVectorIndex
    /\ vout = Call("none", <<>>, 0, Ok(0, <<>>))
    /\ service = NewSearchService
    /\ sout = SvcCall("none", "", <<>>, 0, SvcOk(<<>>))
    /\ latest = <<>>
    /\ stop_in = <<>>
    /\ stop_out = <<>>
    /\ caches = [inst \in Instances |-> NewEmbeddingCache]
    /\ disk = <<>>
    /\ now = 0
    /\ cout = CacheCall("none", "", "", "", <<>>, 0, CacheOk(<<>>), {})
    /\ inflight = [inst \in Instances |-> NoPut]
    /\ last_put = <<>>
    /\ conv = Conversation_new(None)
    /\ cvout = ConvCall("none", NoMessage, FALSE)
    /\ given = None
    /\ added = <<>>
    /\ limiter = RateLimiter_new(1, 0)
    /\ callers = [task \in Tasks |-> Resting]
    /\ clock = 0
    /\ rlout = RateCall("new", "", TRUE, 0)
    /\ ledger = NewLedger(0)

\* the BM25 index alone
BM25Next == BMAdd \/ BMSearch \/ BMClear

BM25Spec == Init /\ [][BM25Next]_vars

\* the vector index alone
VecNext == VAdd \/ VSearch \/ VClear

VecSpec == Init /\ [][VecNext]_vars

\* the search service alone
SvcNext == SvcIndex \/ SvcSearch \/ SvcClear

SvcSpec == Init /\ [][SvcNext]_vars

\* the stopword filter alone
TokNext == TokRemove

TokSpec == Init /\ [][TokNext]_vars

\* the embedding cache alone: two instances on one directory
CacheNext ==
    \/ \E inst \in Instances :
          \/ CacheNew(inst)
          \/ CacheGet(inst, FALSE)
          \/ CachePut(inst, FALSE)
          \/ CacheClearOld(inst, FALSE)
    \/ Tick

CacheSpec == Init /\ [][CacheNext]_vars

\* one instance that has the directory to itself
CacheSoloNext ==
    CacheGet("A", FALSE) \/ CachePut("A", FALSE) \/ CacheClearOld("A", FALSE)
        \/ Tick

CacheSoloSpec == Init /\ [][CacheSoloNext]_vars

\* one instance and the fresh instances that take its place on the directory
CacheRestartNext ==
    \/ CacheNew("A")
    \/ CacheGet("A", FALSE)
    \/ CachePut("A", FALSE)
    \/ CacheClearOld("A", FALSE)
    \/ Tick

CacheRestartSpec == Init /\ [][CacheRestartNext]_vars

\* one instance on a directory whose file operations can fail
CacheFaultNext ==
    \/ CacheNew("A")
    \/ CacheGet("A", TRUE)
    \/ CachePut("A", TRUE)
    \/ CacheClearOld("A", TRUE)
    \/ Tick

CacheFaultSpec == Init /\ [][CacheFaultNext]_vars

\* one instance that has the directory to itself and calls get and put
\* only, file operations failing or not
CacheExclusiveNext == CacheGet("A", TRUE) \/ CachePut("A", TRUE)

CacheExclusiveSpec == Init /\ [][CacheExclusiveNext]_vars

\* two instances on one directory whose puts interleave step by step
CacheRaceNext ==
    \E inst \in Instances :
        \/ PutBegin(inst)
        \/ PutCreate(inst)
        \/ PutWrite(inst)
        \/ CacheNew(inst)
        \/ CacheGet(inst, FALSE)

CacheRaceSpec == Init /\ [][CacheRaceNext]_vars

\* the conversation alone
ConvNext == ConvNew \/ ConvAdd \/ ConvClear

ConvSpec == Init /\ [][ConvNext]_vars

\* the rate limiter alone, shared by the tasks
RateNext ==
    \/ RateNew
    \/ \E task \in Tasks :
          \/ RateBegin(task)
          \/ LockTokens(task)
          \/ LockLastRefill(task)
          \/ Refill(task)
          \/ TestTokens(task)
          \/ Consume(task)
          \/ Wake(task)
    \/ RateTick

RateSpec == Init /\ [][RateNext]_vars

\* every component
Next ==
    BM25Next \/ VecNext \/ SvcNext \/ TokNext \/ CacheNext \/ CacheFaultNext
        \/ CacheRaceNext \/ ConvNext \/ RateNext

Spec == Init /\ [][Next]_vars

---------------------------------------------------------------------------
(* Claims about the BM25 index, checked under BM25Spec *)

\* the postings of term that name doc_id
Listed(term, doc_id) ==
    term \in DOMAIN index.term_docs /\ doc_id \in index.term_docs[term]

Counted(term, doc_id) ==
    term \in DOMAIN index.term_freqs /\ doc_id \in DOMAIN index.term_freqs[term]

AllTerms == DOMAIN index.term_docs \cup DOMAIN index.term_freqs

\* C1: the postings that name a document id, in term_docs and in term_freqs,
\* are exactly those of the terms of its latest content, with the counts of
\* that content; no term of an earlier content alone still lists the id.
C1_PostingsOfLatestContent ==
    \A doc_id \in DOMAIN index.documents :
        LET tokens == index.documents[doc_id]
        IN  /\ \A term \in Range(tokens) :
                  /\ Listed(term, doc_id)
                  /\ Counted(term, doc_id)
                  /\ index.term_freqs[term][doc_id] = Count(tokens, term)
            /\ \A term \in AllTerms \ Range(tokens) :
                  ~Listed(term, doc_id) /\ ~Counted(term, doc_id)

\* the terms of the query of the last search
QueryTerms == Range(remove_stopwords(tokenize(out.text)))

\* C2: every (id, score) pair a search returns names a document whose stored
\* term sequence contains at least one term of the query.
C2_HitsContainQueryTerm ==
    out.op = "search" =>
        \A i \in 1..Len(out.result) :
            /\ out.result[i].id \in DOMAIN index.documents
            /\ Range(index.documents[out.result[i].id]) \cap QueryTerms # {}

\* IEEE comparison of two scores: false when either is NaN
QGreater(x, y) == QCmp(x, y) = "Greater"

\* the scores search accumulated for the query of the last search
LastScores ==
    LET tokens == remove_stopwords(tokenize(out.text))
    IN  Accumulate(index, tokens, Len(tokens))

\* C9: a search returns at most top_k pairs, with pairwise distinct ids, each
\* with the score accumulated for its id, no pair scoring higher than a pair
\* before it and no id left out scoring higher than a returned one; with
\* top_k = 0 it returns nothing.
C9_TopKByScore ==
    out.op = "search" =>
        LET hits == out.result
            shown == { hits[i].id : i \in 1..Len(hits) }
        IN  /\ Len(hits) <= out.top_k
            /\ Len(hits) = Min(out.top_k, Cardinality(DOMAIN LastScores))
            /\ Cardinality(shown) = Len(hits)
            /\ \A i \in 1..Len(hits) :
                  /\ hits[i].id \in DOMAIN LastScores
                  /\ hits[i].score = LastScores[hits[i].id]
            /\ \A i, j \in 1..Len(hits) :
                  i < j => ~QGreater(hits[j].score, hits[i].score)
            /\ \A d \in DOMAIN LastScores \ shown : \A i \in 1..Len(hits) :
                  ~QGreater(LastScores[d], hits[i].score)
            /\ out.top_k = 0 => hits = <<>>

\* C9 witness: two documents scored differently for "The Dog-fox", the better
\* one returned alone with top_k = 1
C9_Witness ==
    /\ out.op = "search"
    /\ out.top_k = 1
    /\ Len(out.result) = 1
    /\ Cardinality(DOMAIN LastScores) = 2
    /\ \E d \in DOMAIN LastScores : QGreater(out.result[1].score, LastScores[d])

\* the sum of one partial score per term of terms that lists doc_id
RECURSIVE SumOfPartials(_, _)
SumOfPartials(terms, doc_id) ==
    IF terms = {} THEN QZero
    ELSE LET term == CHOOSE t \in terms : TRUE
         IN  QAdd(SumOfPartials(terms \ {term}, doc_id),
                  Partial(index, term, doc_id))

\* C10: the score of a returned document is the sum of one partial score per
\* distinct query term whose postings list the document, however often the
\* term is repeated in the query.
C10_OnePartialPerDistinctTerm ==
    out.op = "search" =>
        \A i \in 1..Len(out.result) :
            out.result[i].score =
                SumOfPartials({ t \in QueryTerms : Listed(t, out.result[i].id) },
                              out.result[i].id)

\* the documents whose stored term sequence has a term of the last query
Matching ==
    { d \in DOMAIN index.documents :
        Range(index.documents[d]) \cap QueryTerms # {} }

\* C11: every partial score a search accumulates is a number >= 0 (neither
\* NaN nor infinite); the posting of a scored term lists at most as many ids
\* as there are documents, and the average document length is > 0 whenever
\* a posting is scored.
C11_PartialScoresNonNegative ==
    out.op = "search" =>
        \A t \in QueryTerms \cap DOMAIN index.term_docs :
            \A d \in index.term_docs[t] :
                /\ Partial(index, t, d).k = "num"
                /\ Partial(index, t, d).v >= 0
                /\ Cardinality(index.term_docs[t])
                        <= Cardinality(DOMAIN index.documents)
                /\ index.avg_doc_len.k = "num"
                /\ index.avg_doc_len.v > 0

\* C12: in an index whose postings are those of distinct-id insertions, a
\* search returns only documents that contain a query term, each with a
\* score > 0, all of them when at most top_k exist, and nothing when no
\* document contains a query term.
C12_AllMatchingReturned ==
    (out.op = "search" /\ C1_PostingsOfLatestContent) =>
        LET hits == out.result
            shown == { hits[i].id : i \in 1..Len(hits) }
        IN  /\ shown \subseteq Matching
            /\ Cardinality(Matching) <= out.top_k => shown = Matching
            /\ Matching = {} => hits = <<>>
            /\ \A i \in 1..Len(hits) :
                  hits[i].score.k = "num" /\ hits[i].score.v > 0

\* C12 witness: a holds "the quick brown fox", b holds "the lazy dog", and
\* the search for "fox" returned a alone
C12_Witness ==
    /\ out.op = "search"
    /\ out.text = fox
    /\ out.top_k = MaxTopK
    /\ DOMAIN index.documents = { "a", "b" }
    /\ index.documents["a"] = <<quick, brown, fox>>
    /\ index.documents["b"] = <<lazy, dog>>
    /\ C1_PostingsOfLatestContent
    /\ Len(out.result) = 1
    /\ out.result[1].id = "a"

\* C26: a document id is in term_docs[term] if and only if
\* term_freqs[term] holds a count for the id that is not zero.
C26_PostingConsistency ==
    \A term \in AllTerms, doc_id \in DocIds :
        Listed(term, doc_id)
            <=> (Counted(term, doc_id) /\ index.term_freqs[term][doc_id] # 0)

\* C26 witness: a posting left from an earlier content of a re-added id:
\* the id is listed and counted under a term its document does not hold
C26_Witness ==
    \E term \in AllTerms, doc_id \in DOMAIN index.documents :
        /\ term \notin Range(index.documents[doc_id])
        /\ Listed(term, doc_id)
        /\ Counted(term, doc_id)
        /\ index.term_freqs[term][doc_id] > 0

\* the sum of the lengths of the stored term sequences of ids
RECURSIVE StoredLength(_)
StoredLength(ids) ==
    IF ids = {} THEN 0
    ELSE LET doc_id == CHOOSE d \in ids : TRUE
         IN  StoredLength(ids \ {doc_id}) + Len(index.documents[doc_id])

\* C27: after add_document the average document length is the sum of the
\* lengths of the stored term sequences of the current documents over the
\* number of current documents: a value of the stored documents alone,
\* whatever the order of the insertions that led to them.
C27_AverageOfCurrentDocuments ==
    out.op = "add" =>
        index.avg_doc_len =
            QDiv(Num(StoredLength(DOMAIN index.documents) * Scale),
                 Num(Cardinality(DOMAIN index.documents) * Scale))

\* C27 witness: an id re-added with a content of another length, next to a
\* second document: two documents with lengths 2 and 3, average 2.5
C27_Witness ==
    /\ out.op = "add"
    /\ DOMAIN index.documents = { "a", "b" }
    /\ ~C1_PostingsOfLatestContent
    /\ StoredLength({ "a", "b" }) = 5
    /\ index.avg_doc_len = Num((5 * Scale) \div 2)

---------------------------------------------------------------------------
(* Claims about the search service, checked under SvcSpec *)

\* the pieces of a query between characters that are not alphanumeric
Pieces(text) == Range(Split([i \in 1..Len(text) |-> to_lowercase(text[i])]))

\* a query none of whose pieces is a term: each is empty, at most two bytes
\* long, or a stopword
YieldsNoTerms(text) ==
    \A piece \in Pieces(text) : StrLen(piece) <= 2 \/ is_stopword(piece)

\* C13: a query that yields no terms makes SearchService::search return Ok
\* with an empty list, and BM25Index::search on the index of the service
\* return an empty list, whatever the index contains.
C13_NoTermsNoHits ==
    (sout.op = "search" /\ YieldsNoTerms(sout.text)) =>
        /\ sout.res = SvcOk(<<>>)
        /\ BM25Index_search(service.index, sout.text, sout.top_k) = { <<>> }

\* C13 witness: a search for "the With", all of whose terms are stopwords,
\* in a service that holds two documents
C13_Witness ==
    /\ sout.op = "search"
    /\ sout.text = the \o SP \o <<"W", "i", "t", "h">>
    /\ sout.top_k = MaxTopK
    /\ SearchService_doc_count(service) = 2
    /\ sout.res = SvcOk(<<>>)

\* C14: after clear, doc_count() is 0, the average document length is 0,
\* every search returns an empty list, and the service equals a freshly
\* created one, so that whatever is indexed next is scored as in a fresh
\* service: nothing from before the clear contributes.
C14_ClearResets ==
    sout.op = "clear" =>
        /\ SearchService_doc_count(service) = 0
        /\ service.index.avg_doc_len = QZero
        /\ \A query \in SvcQueries, top_k \in 0..MaxTopK :
              /\ SearchService_search(service, query, top_k) = { SvcOk(<<>>) }
              /\ BM25Index_search(service.index, query, top_k) = { <<>> }
        /\ service = NewSearchService
        /\ \A path \in DocIds, content \in SvcContents :
              LET next == SearchService_index_document(service, path, content)
                  fresh == SearchService_index_document(NewSearchService,
                                                        path, content)
              IN  \A query \in SvcQueries :
                    SearchService_search(next, query, MaxTopK)
                        = SearchService_search(fresh, query, MaxTopK)

\* C14 witness: a clear of a service into which both paths had been indexed
C14_Witness ==
    /\ sout.op = "clear"
    /\ DOMAIN latest = DocIds

\* the first 200 characters of content, all of it when it is shorter
First200(content) ==
    IF Len(content) <= 200 THEN content ELSE SubSeq(content, 1, 200)

\* C15: every SearchResult of a search carries as snippet the first 200
\* characters of the content last passed to index_document for its path.
C15_SnippetOfLatestContent ==
    sout.op = "search" =>
        \A i \in 1..Len(sout.res.hits) :
            LET hit == sout.res.hits[i]
            IN  /\ hit.path \in DOMAIN latest
                /\ hit.snippet = First200(latest[hit.path])

\* C15 witness: a search for "fox" returns a path holding the long content,
\* with a snippet of 200 characters, and a path re-indexed from "the quick
\* brown fox" to "the lazy dog", with the snippet "the lazy dog"
C15_Witness ==
    /\ sout.op = "search"
    /\ sout.text = fox
    /\ \E i, j \in 1..Len(sout.res.hits) :
          /\ latest[sout.res.hits[i].path] = LongContent
          /\ Len(sout.res.hits[i].snippet) = 200
          /\ sout.res.hits[j].snippet = LazyDog

\* C29: the paths of the content map are the document ids of the index,
\* doc_count() is their number, index_document raises it by one for a path
\* not held and leaves it for a path held, and no search result carries the
\* "..." placeholder.
C29_ContentMapMatchesIndex ==
    /\ [](/\ DOMAIN service.documents = DOMAIN service.index.documents
          /\ SearchService_doc_count(service)
                = Cardinality(DOMAIN service.index.documents)
          /\ sout.op = "search" =>
                \A i \in 1..Len(sout.res.hits) :
                    sout.res.hits[i].snippet # <<".", ".", ".">>)
    /\ [][ (sout'.op = "index_document" /\ service' # service)
            => SearchService_doc_count(service')
                 = SearchService_doc_count(service)
                     + (IF sout'.path \in DOMAIN service.documents
                        THEN 0 ELSE 1) ]_vars

\* C29 witness: a path was re-indexed with another content while the
\* service holds both paths: doc_count() is still 2
C29_Witness ==
    /\ sout.op = "index_document"
    /\ SearchService_doc_count(service) = 2
    /\ \E term \in DOMAIN service.index.term_docs :
          /\ sout.path \in service.index.term_docs[term]
          /\ term \notin Range(service.index.documents[sout.path])

---------------------------------------------------------------------------
(* Claims about the stopword filter, checked under TokSpec *)

\* the terms of tokens that are not in words, in their order, each as often
\* as it occurs
RECURSIVE Without(_, _)
Without(tokens, words) ==
    IF tokens = <<>> THEN <<>>
    ELSE IF Head(tokens) \in words THEN Without(Tail(tokens), words)
    ELSE <<Head(tokens)>> \o Without(Tail(tokens), words)

\* a, the, and, or, is, in, at, to, for, of, on, with, by, from
FourteenWords ==
    { <<"a">>, <<"t", "h", "e">>, <<"a", "n", "d">>, <<"o", "r">>,
      <<"i", "s">>, <<"i", "n">>, <<"a", "t">>, <<"t", "o">>,
      <<"f", "o", "r">>, <<"o", "f">>, <<"o", "n">>, <<"w", "i", "t", "h">>,
      <<"b", "y">>, <<"f", "r", "o", "m">> }

\* C16 as stated: remove_stopwords removes exactly the terms that are one of
\* the fourteen words a, the, and, or, is, in, at, to, for, of, on, with, by,
\* from, and keeps every other term in its order and multiplicity.
C16_RemovesTheFourteenWords == stop_out = Without(stop_in, FourteenWords)

\* C16 amended: remove_stopwords removes exactly the terms that are one of
\* the fifteen words the, a, an, and, or, is, in, at, to, for, of, on, with,
\* by, from, and keeps every other term in its order and multiplicity.
C16_RemovesTheFifteenWords ==
    stop_out = Without(stop_in, FourteenWords \cup { <<"a", "n">> })

\* C16 witness: of the terms "an", "fox" only "fox" is kept
C16_Witness ==
    /\ stop_in = << <<"a", "n">>, fox >>
    /\ stop_out = << fox >>

---------------------------------------------------------------------------
(* Claims about the embedding cache, checked under CacheSpec (C17, C20)    *)
(* and CacheSoloSpec (C18, C19)                                            *)

\* the hash of the pair of the last call
LastHash == hash_text(cout.text, cout.model)

\* the file of hash was written by a put and not removed by clear_old since
Stored(hash) == hash \in DOMAIN last_put /\ ~last_put[hash].purged

\* C17: a get on a fresh instance (one whose memory tier is empty) for a
\* pair that an instance has put returns Some of the embedding of that put
\* and leaves the embedding in the memory tier of the fresh instance.
C17_RoundTripAcrossInstances ==
    [][ (/\ cout'.op = "get"
         /\ now' = now
         /\ caches[cout'.inst].memory_cache = <<>>
         /\ Stored(LastHash'))
        => /\ cout'.res.kind = "Ok"
           /\ cout'.res.value = Some(last_put[LastHash'].embedding)
           /\ LastHash' \in DOMAIN caches'[cout'.inst].memory_cache
           /\ caches'[cout'.inst].memory_cache[LastHash']
                 = last_put[LastHash'].embedding ]_vars

\* C18: on an instance that has the directory to itself, get returns
\* Ok(None) for a pair never put, and Ok(Some(e)), e the embedding of the
\* last put of the pair, while clear_old has not removed the file of that
\* put, whether or not the memory tier still holds the entry.
C18_GetReturnsLastPut ==
    cout.op = "get" =>
        /\ LastHash \notin DOMAIN last_put =>
              cout.res.kind = "Ok" /\ cout.res.value = None
        /\ Stored(LastHash) =>
              /\ cout.res.kind = "Ok"
              /\ cout.res.value = Some(last_put[LastHash].embedding)

\* the memory map a get or put step inserts into, with the entry inserted
Inserted(inst) ==
    LET before == caches[inst].memory_cache
    IN  IF cout'.op = "put" THEN Put(before, LastHash', cout'.embedding)
        ELSE IF cout'.res.kind = "Ok" /\ cout'.res.value # None
        THEN Put(before, LastHash', cout'.res.value[1])
        ELSE before

Older(timestamp, days) ==
    /\ now - timestamp > 0
    /\ days <= (now - timestamp - 1) \div 86400

\* C20: clear_old(days) removes exactly the files whose stored timestamp is
\* less than now - days * 86400, leaves every other file as it is, and
\* returns the number of files it removed.
C20_ClearOldRemovesExactlyOld ==
    [][ (cout'.op = "clear_old" /\ now' = now)
        => LET gone == { h \in DOMAIN disk :
                           Older(disk[h].timestamp, cout'.days) }
           IN  /\ disk' = [h \in DOMAIN disk \ gone |-> disk[h]]
               /\ cout'.res = CacheRemoved(Cardinality(gone)) ]_vars

---------------------------------------------------------------------------
(* Claims about the embedding cache and its files, checked under          *)
(* CacheRestartSpec (C21), CacheFaultSpec (C22), CacheRaceSpec (C23) and   *)
(* CacheExclusiveSpec (C28)                                                *)

\* clear_old has removed the file of hash and no put has written it since
Purged(hash) == hash \in DOMAIN last_put /\ last_put[hash].purged

\* C21: clear_old leaves the memory tier of every instance as it is; once
\* it has removed the file of a pair, a get for the pair on an instance that
\* holds it in memory returns Some of the embedding held there, and a get
\* on a fresh instance (one whose memory tier is empty) returns None.
C21_ClearOldKeepsMemoryTier ==
    /\ [][ (cout'.op = "clear_old" /\ now' = now) => caches' = caches ]_vars
    /\ [][ (cout'.op = "get" /\ now' = now /\ Purged(LastHash'))
            => LET memory_cache == caches[cout'.inst].memory_cache
               IN  /\ LastHash' \in DOMAIN memory_cache
                        => /\ cout'.res.kind = "Ok"
                           /\ Len(cout'.res.value) = 1
                           /\ cout'.res.value[1] = memory_cache[LastHash']
                   /\ DOMAIN memory_cache = {}
                        => /\ cout'.res.kind = "Ok"
                           /\ Len(cout'.res.value) = 0 ]_vars

\* C21 witness: a get has returned Some for a pair whose file clear_old
\* has removed
C21_Witness ==
    /\ cout.op = "get"
    /\ Purged(LastHash)
    /\ LastHash \notin DOMAIN disk
    /\ cout.res.kind = "Ok"
    /\ cout.res.value # None

\* the call of this step met an error on a file: an operation on the file
\* failed, or the file it read is no CacheEntry
MetError ==
    \/ cout'.failed # {}
    \/ /\ cout'.op = "clear_old"
       /\ \E hash \in DOMAIN disk : from_str(disk[hash]).kind = "Err"
    \/ /\ cout'.op = "get"
       /\ LastHash' \notin DOMAIN caches[cout'.inst].memory_cache
       /\ LastHash' \in DOMAIN disk
       /\ from_str(disk[LastHash']).kind = "Err"

\* C22: a get, put or clear_old that meets an I/O or deserialization error
\* on a cache file returns an error.
C22_FileErrorsReturned ==
    [][ (cout'.op \in { "get", "put", "clear_old" } /\ now' = now /\ MetError)
        => cout'.res.kind = "Err" ]_vars

\* C28: every key of the memory tier has a file, and the file holds the
\* embedding the memory tier holds for the key.
C28_MemoryBackedByDisk ==
    \A hash \in DOMAIN caches["A"].memory_cache :
        /\ hash \in DOMAIN disk
        /\ from_str(disk[hash]).kind = "Ok"
        /\ from_str(disk[hash]).value.embedding
              = caches["A"].memory_cache[hash]

\* C23: once the puts of both instances have returned, the file of a pair
\* holds, whole, the embedding of the put that wrote it last, and a get on
\* a fresh instance (one whose memory tier is empty) returns that embedding.
C23_LastWriterWins ==
    /\ [](Idle => \A hash \in DOMAIN last_put :
                     /\ hash \in DOMAIN disk
                     /\ from_str(disk[hash]).kind = "Ok"
                     /\ disk[hash].embedding = last_put[hash].embedding)
    /\ [][ (/\ cout'.op = "get"
            /\ caches[cout'.inst].memory_cache = <<>>
            /\ LastHash' \in DOMAIN last_put)
           => /\ cout'.res.kind = "Ok"
              /\ Len(cout'.res.value) = 1
              /\ cout'.res.value[1] = last_put[LastHash'].embedding ]_vars

---------------------------------------------------------------------------
(* Claims about the conversation, checked under ConvSpec *)

\* the messages behind a leading system message, or all of them
Besides(messages) == IF HasSystem(messages) THEN Tail(messages) ELSE messages

\* C24: the messages other than a leading system prompt are never more than
\* max_messages; a system prompt given at construction is the first message
\* in every state, after any trimming and any clear; and clear leaves no
\* other message.
C24_PromptAndCountKept ==
    /\ Len(Besides(conv.messages)) <= conv.max_messages
    /\ Conversation_len(conv) <= conv.max_messages
    /\ given # None => (conv.messages # <<>> /\ conv.messages[1] = given[1])
    /\ cvout.op = "clear" => Besides(conv.messages) = <<>>

\* C24 witness: an add_message on a conversation with a system prompt and a
\* full context has removed the oldest message and kept the prompt
C24_Witness ==
    /\ cvout.op = "add_message"
    /\ given # None
    /\ conv.max_messages >= 1
    /\ Len(conv.messages) = conv.max_messages + 1
    /\ Len(added) > conv.max_messages
    /\ conv.messages[1] = given[1]

\* s is the end of t
IsSuffix(s, t) ==
    /\ Len(s) <= Len(t)
    /\ \A i \in 1..Len(s) : s[i] = t[Len(t) - Len(s) + i]

\* the message alone is within the token budget
Fits(message) ==
    \/ conv.max_tokens = None
    \/ StrLen(message.content) \div 4 <= conv.max_tokens[1]

\* C30: after an add_message(m) that returned, the messages behind the
\* system prompt are the last ones added, in the order they were added; and
\* if max_messages >= 1 and m alone is within the token budget, m is the
\* last message.
C30_NewestMessageKept ==
    (cvout.op = "add_message" /\ ~cvout.panicked) =>
        /\ IsSuffix(Besides(conv.messages), added)
        /\ (conv.max_messages >= 1 /\ Fits(cvout.message))
              => /\ Len(conv.messages) > (IF given = None THEN 0 ELSE 1)
                 /\ conv.messages[Len(conv.messages)] = cvout.message

---------------------------------------------------------------------------
(* Claims about the rate limiter, checked under RateSpec *)

\* C25: a new limiter holds requests_per_minute tokens; the count stays
\* within [0, requests_per_minute]; a grant takes exactly one token; the
\* grants since creation are no more than the capacity plus the tokens
\* refilled since (refill_rate for every tick); and try_acquire returns
\* false exactly when its refill left less than one token.
C25_TokenBucket ==
    /\ [](rlout.op = "new" => limiter.tokens = limiter.refill_rate * OneToken)
    /\ [](/\ 0 <= limiter.tokens
          /\ limiter.tokens <= limiter.refill_rate * OneToken)
    /\ [][ ledger'.grants = ledger.grants + 1
             => limiter'.tokens = limiter.tokens - OneToken ]_vars
    /\ [](ledger.grants * OneToken
            <= limiter.max_tokens
                 + limiter.refill_rate * (clock - ledger.created))
    /\ [](rlout.op = "try_acquire"
            => (rlout.res = FALSE <=> rlout.available < OneToken))

\* C25 witness: with the bucket drained and a task asleep in acquire,
\* try_acquire has returned false to the other task
C25_Witness ==
    /\ rlout.op = "try_acquire"
    /\ rlout.res = FALSE
    /\ limiter.refill_rate >= 1
    /\ ledger.grants >= 1
    /\ \E task \in Tasks : callers[task].pc = "sleep"

---------------------------------------------------------------------------
(* Claims about the vector index, checked under VecSpec *)

Rejected == { "EmptyEmbeddings", "DimensionMismatch" }

\* C3: dimensions() is None exactly when the index holds no documents, and
\* otherwise it is the length of every stored embedding (hence that of the
\* first insert since creation or the last clear).
C3_DimensionInvariant ==
    /\ (vindex.dimensions = None) <=> (Len(vindex.documents) = 0)
    /\ \A i \in 1..Len(vindex.documents) :
          vindex.dimensions = Some(Len(vindex.documents[i].embedding))

\* C3 witness: an index of two or more embeddings of length 2 that has just
\* rejected an embedding of another length
C3_Witness ==
    /\ Len(vindex.documents) >= 2
    /\ vindex.dimensions = Some(2)
    /\ vout.op = "add"
    /\ vout.res.kind = "DimensionMismatch"

\* C4: an add_document that returns EmptyEmbeddings or DimensionMismatch
\* leaves documents, dimensions and next_id as they were; EmptyEmbeddings is
\* for the embedding of length 0, and DimensionMismatch reports the
\* established dimensionality as expected and the supplied length as got.
C4_RejectedInsertLeavesIndex ==
    [][ (vout'.op = "add" /\ vout'.res.kind \in Rejected) =>
          /\ vindex' = vindex
          /\ (vout'.res.kind = "EmptyEmbeddings") <=> (Len(vout'.embedding) = 0)
          /\ vout'.res.kind = "DimensionMismatch" =>
                /\ vindex.dimensions # None
                /\ vout'.res.expected = vindex.dimensions[1]
                /\ vout'.res.got = Len(vout'.embedding)
                /\ vout'.res.got # vout'.res.expected ]_vars

\* C4 witness: [x, y] stored, then an embedding of length 1 rejected
C4_Witness ==
    /\ vout.op = "add"
    /\ vout.res.kind = "DimensionMismatch"
    /\ vout.res.expected = 2
    /\ vout.res.got = 1
    /\ Len(vindex.documents) = 1

\* C5: the next id is len(), the i-th stored document has id i (from 0), and
\* a successful add_document returned the id of the document it appended, so
\* rejected inserts consume no id and clear restarts the ids at 0.
C5_SequentialIds ==
    /\ vindex.next_id = Len(vindex.documents)
    /\ \A i \in 1..Len(vindex.documents) : vindex.documents[i].id = i - 1
    /\ (vout.op = "add" /\ vout.res.kind = "Ok") =>
          /\ vout.res.id = Len(vindex.documents) - 1
          /\ vindex.documents[Len(vindex.documents)].embedding = vout.embedding

\* C5 witness: the second successful insert returned id 1
C5_Witness ==
    /\ vout.op = "add"
    /\ vout.res.kind = "Ok"
    /\ vout.res.id = 1
    /\ Len(vindex.documents) = 2

\* C6: search returns EmptyEmbeddings for an empty query, otherwise
\* DimensionMismatch{expected, got} when an established dimensionality differs
\* from the query's length, otherwise Ok (with no hits on an index whose
\* dimensionality is unset); and a search step leaves the index as it was.
C6_SearchValidation ==
    /\ [] (vout.op = "search" =>
             LET q == vout.embedding
                 dims == vindex.dimensions
             IN  /\ Len(q) = 0 => vout.res = EmptyEmbeddings
                 /\ (Len(q) # 0 /\ dims # None /\ dims[1] # Len(q)) =>
                        vout.res = DimensionMismatch(dims[1], Len(q))
                 /\ (Len(q) # 0 /\ (dims = None \/ dims[1] = Len(q))) =>
                        vout.res.kind = "Ok"
                 /\ (Len(q) # 0 /\ dims = None) => vout.res.hits = <<>>)
    /\ [][ vout'.op = "search" => vindex' = vindex ]_vars

\* C6 witness: a query of length 1 answered Ok, with no hits, by an index
\* whose dimensionality is unset
C6_Witness ==
    /\ vout.op = "search"
    /\ Len(vout.embedding) = 1
    /\ vindex.dimensions = None
    /\ vout.res = Ok(0, <<>>)

\* IEEE comparison of two scores: false when either is NaN
ScoreGreater(s, t) == partial_cmp(s, t) = "Greater"

\* C7: a search that returns Ok returns min(k, len()) hits, each with the
\* path and snippet of a document of its own, no hit scoring higher than a
\* hit before it, and no omitted document scoring higher than a hit.
C7_TopKBySimilarity ==
    (vout.op = "search" /\ vout.res.kind = "Ok") =>
        LET hits == vout.res.hits
            docs == vindex.documents
            sim(i) == cosine_similarity(docs[i].embedding, vout.embedding)
            shown == { hits[i].doc : i \in 1..Len(hits) }
        IN  /\ Len(hits) = Min(vout.k, Len(docs))
            /\ Cardinality(shown) = Len(hits)
            /\ \A i \in 1..Len(hits) :
                  /\ hits[i].doc \in 1..Len(docs)
                  /\ hits[i].path = docs[hits[i].doc].path
                  /\ hits[i].snippet = docs[hits[i].doc].snippet
                  /\ hits[i].score = sim(hits[i].doc)
            /\ \A i, j \in 1..Len(hits) :
                  i < j => ~ScoreGreater(hits[j].score, hits[i].score)
            /\ \A d \in (1..Len(docs)) \ shown : \A i \in 1..Len(hits) :
                  ~ScoreGreater(sim(d), hits[i].score)

\* C8: every score a search yields is a number in [-1, 1], never undefined
C8_CosineDefinedAndBounded ==
    (vout.op = "search" /\ vout.res.kind = "Ok") =>
        \A i \in 1..Len(vout.res.hits) :
            LET s == vout.res.hits[i].score
            IN  s.k = "num" /\ s.n * s.n <= s.d2

=============================================================================
